---- MODULE Spec2Model ----
(***************************************************************************)
(* bevy_chess: the move-legality engine (src/src/pieces.rs) and the        *)
(* selection / turn systems (src/src/board.rs).                            *)
(*                                                                         *)
(* One frame of the Update stage runs select_squares, select_piece,        *)
(* move_piece and remove_taken_pieces in that order (BoardPlugin::build);  *)
(* Commands issued by a system (insert(Taken), despawn_recursive) are      *)
(* applied when the stage ends, after all four systems have run.           *)
(***************************************************************************)
EXTENDS Integers, Sequences, FiniteSets, TLC

VARIABLES
    pieces,           \* Query<(Entity, &Piece)>: entity id -> Piece, for the entities that exist
    taken,            \* entities that carry the Taken component
    turn,             \* PlayerTurn.0
    selected_square,  \* SelectedSquare.entity, as the square's (x, y), or None
    selected_piece,   \* SelectedPiece.entity, a piece entity id, or None
    sq_changed_sp,    \* selected_square.is_changed() as select_piece will see it
    sq_changed_mp,    \* selected_square.is_changed() as move_piece will see it
    pc_changed_mp,    \* selected_piece.is_changed() as move_piece will see it
    n_events,         \* selection events select_squares has consumed in the current frame
    attempt,          \* what move_piece did in the last frame: "none", "legal", "illegal"
    resolved,         \* whether select_piece set selected_piece in the last frame
    game_over,        \* whether AppExit was sent in the last frame
    panicked,         \* whether an unwrap() failed
    moves,            \* legal moves made so far
    legal             \* SpecLegal only: the targets is_move_valid accepts, or None

vars == <<pieces, taken, turn, selected_square, selected_piece, sq_changed_sp,
          sq_changed_mp, pc_changed_mp, n_events, attempt, resolved, game_over,
          panicked, moves, legal>>

(***************************************************************************)
(* Data model                                                              *)
(***************************************************************************)
\* Option<T>: None is the empty sequence, Some(v) the one-element sequence.
None == <<>>

Some(v) == <<v>>

PieceColor == {"White", "Black"}

PieceType == {"King", "Queen", "Bishop", "Knight", "Rook", "Pawn"}

\* The board is 8 x 8: create_board spawns Square { x: i, y: j } for i, j in 0..8.
BoardSize == 8

Coord == 0 .. (BoardSize - 1)

Square == Coord \X Coord

Piece(color, piece_type, x, y) ==
    [color |-> color, piece_type |-> piece_type, x |-> x, y |-> y]

\* i8::abs left out.
Abs_id(v) == v

\* i8::abs and i8::signum on the values that occur (|v| <= 7).
Abs(v) == IF v < 0 THEN -v ELSE v

Signum(v) == IF v < 0 THEN -1 ELSE IF v > 0 THEN 1 ELSE 0

\* (v as i8) as u8 for v in -128..127: two's complement wrap-around.
AsU8(v) == v % 256

Min2(a, b) == IF a < b THEN a ELSE b

Max2(a, b) == IF a > b THEN a ELSE b

SetMin(S) == CHOOSE m \in S : \A n \in S : m <= n

(***************************************************************************)
(* Manhatan                                                                *)
(***************************************************************************)
\* Manhatan::from with the two positions exchanged.
ManhatanFrom_reversed(p1, p2) == <<p2[1] - p1[1], p2[2] - p1[2]>>

\* Manhatan::from((x1, y1), (x2, y2))
ManhatanFrom(p1, p2) == <<p1[1] - p2[1], p1[2] - p2[2]>>

\* Manhatan::abs left out.
ManhatanAbs_id(d) == d

ManhatanAbs(d) == <<Abs(d[1]), Abs(d[2])>>

\* Manhatan::max taking the smaller component.
ManhatanMax_min(d) == Min2(d[1], d[2])

ManhatanMax(d) == Max2(d[1], d[2])

ManhatanMin(d) == Min2(d[1], d[2])

straight(d) == ManhatanMin(ManhatanAbs(d)) = 0

\* Manhatan::dignonal accepting every distance.
dignonal_any(d) == TRUE

dignonal(d) == ManhatanAbs(d)[1] = ManhatanAbs(d)[2]

(***************************************************************************)
(* Board queries over a Vec<Piece> (a sequence of Piece records)           *)
(***************************************************************************)
\* color_of_square with the coordinates compared crosswise.
color_of_square_swapped(position, vec) ==
    LET hits == {i \in 1 .. Len(vec) : vec[i].x = position[2] /\ vec[i].y = position[1]}
    IN  IF hits = {} THEN None ELSE Some(vec[SetMin(hits)].color)

\* The first piece of the Vec on the square decides.
color_of_square(position, vec) ==
    LET hits == {i \in 1 .. Len(vec) : vec[i].x = position[1] /\ vec[i].y = position[2]}
    IN  IF hits = {} THEN None ELSE Some(vec[SetMin(hits)].color)

\* is_path_empty finding every path empty.
is_path_empty_always(p1, p2, vec) == TRUE

\* The diagonal walk starts at (x1, y1) and steps by signum(x1 - x2), signum(y1 - y2).
is_path_empty(p1, p2, vec) ==
    LET x1 == p1[1]
        y1 == p1[2]
        x2 == p2[1]
        y2 == p2[2]
        xdiff == x1 - x2
        ydiff == y1 - y2
        column == /\ x1 = x2
                  /\ \E i \in 1 .. Len(vec) :
                        /\ vec[i].x = x1
                        /\ \/ vec[i].y > y1 /\ vec[i].y < y2
                           \/ vec[i].y > y2 /\ vec[i].y < y1
        row    == /\ y1 = y2
                  /\ \E i \in 1 .. Len(vec) :
                        /\ vec[i].y = y1
                        /\ \/ vec[i].x > x1 /\ vec[i].x < x2
                           \/ vec[i].x > x2 /\ vec[i].x < x1
        diag   == /\ Abs(xdiff) = Abs(ydiff)
                  /\ \E i \in 1 .. (Abs(xdiff) - 1) :
                        color_of_square(<<AsU8(x1 + Signum(xdiff) * i),
                                          AsU8(y1 + Signum(ydiff) * i)>>, vec) # None
    IN  ~column /\ ~row /\ ~diag

\* Piece::is_move_valid(&self, new_position, pieces)
is_move_valid(self, new_position, vec) ==
    LET here == <<self.x, self.y>>
        dist == ManhatanFrom(here, new_position)
        pawn_dist == IF self.color = "White" THEN ManhatanFrom(new_position, here) ELSE dist
        square_color == color_of_square(new_position, vec)
    IN  IF Some(self.color) = color_of_square(new_position, vec) THEN FALSE
        ELSE CASE self.piece_type = "King" ->
                    ManhatanMax(ManhatanAbs(dist)) = 1
               [] self.piece_type = "Queen" ->
                    is_path_empty(here, new_position, vec) /\ (dignonal(dist) \/ straight(dist))
               [] self.piece_type = "Bishop" ->
                    is_path_empty(here, new_position, vec) /\ dignonal(dist)
               [] self.piece_type = "Knight" ->
                    \/ ManhatanAbs(dist) = <<2, 1>>
                    \/ ManhatanAbs(dist) = <<1, 2>>
               [] self.piece_type = "Rook" ->
                    is_path_empty(here, new_position, vec) /\ straight(dist)
               [] self.piece_type = "Pawn" ->
                    \/ pawn_dist = <<1, 0>> /\ square_color = None
                    \/ /\ \/ self.color = "White" /\ self.x = 1
                          \/ self.color = "Black" /\ self.x = 6
                       /\ pawn_dist = <<2, 0>>
                       /\ is_path_empty(here, new_position, vec)
                       /\ square_color = None
                    \/ pawn_dist[1] = 1 /\ Abs(pawn_dist[2]) = 1 /\ square_color # None

(***************************************************************************)
(* Entities                                                                *)
(***************************************************************************)
\* The Vec<Piece> a query collects, in entity order. The order decides nothing
\* where at most one piece of a colour stands on a square.
RECURSIVE CollectPieces(_, _)
CollectPieces(ps, ids) ==
    IF ids = {} THEN <<>>
    ELSE LET e == SetMin(ids) IN <<ps[e]>> \o CollectPieces(ps, ids \ {e})

PieceVec(ps) == CollectPieces(ps, DOMAIN ps)

BackRank == <<"Rook", "Knight", "Bishop", "Queen", "King", "Bishop", "Knight", "Rook">>

\* create_pieces: entities 1..16 are White (back rank x = 0, pawns x = 1),
\* entities 17..32 are Black (back rank x = 7, pawns x = 6), in spawn order.
create_pieces ==
    [e \in 1 .. 32 |->
        IF e <= 8 THEN Piece("White", BackRank[e], 0, e - 1)
        ELSE IF e <= 16 THEN Piece("White", "Pawn", 1, e - 9)
        ELSE IF e <= 24 THEN Piece("Black", BackRank[e - 16], 7, e - 17)
        ELSE Piece("Black", "Pawn", 6, e - 25)]

\* PlayerTurn::toggle leaving the colour as it is.
toggle_same(t) == t

\* PlayerTurn::toggle
toggle(t) == IF t = "White" THEN "Black" ELSE "White"

(***************************************************************************)
(* Bounds                                                                  *)
(***************************************************************************)
\* Legal moves per run.
MaxMoves == 3

\* Selection events select_squares reads in one frame.
MaxEvents == 2

\* The squares the picking plugin reports in the game specification.
ClickSquares ==
    {<<0, 0>>, <<0, 2>>, <<0, 3>>, <<1, 0>>, <<2, 4>>, <<3, 0>>, <<4, 1>>, <<4, 7>>,
     <<6, 1>>, <<7, 4>>, <<0, 1>>, <<2, 0>>}

(***************************************************************************)
(* The game: Init and the systems                                          *)
(***************************************************************************)
\* init_resource::<SelectedSquare/SelectedPiece/PlayerTurn>() and create_pieces.
\* A resource counts as changed for a system that has never run.
Init ==
    /\ pieces = create_pieces
    /\ taken = {}
    /\ turn = "White"
    /\ selected_square = None
    /\ selected_piece = None
    /\ sq_changed_sp = TRUE
    /\ sq_changed_mp = TRUE
    /\ pc_changed_mp = TRUE
    /\ n_events = 0
    /\ attempt = "none"
    /\ resolved = FALSE
    /\ game_over = FALSE
    /\ panicked = FALSE
    /\ moves = 0
    /\ legal = None

Running == ~game_over /\ ~panicked

\* select_squares, SelectionEvent::JustSelected(entity)
JustSelected(c) ==
    /\ Running
    /\ n_events < MaxEvents
    /\ selected_square' = Some(c)
    /\ sq_changed_sp' = TRUE
    /\ sq_changed_mp' = TRUE
    /\ n_events' = n_events + 1
    /\ UNCHANGED <<pieces, taken, turn, selected_piece, pc_changed_mp, attempt, resolved,
                   game_over, panicked, moves, legal>>

\* select_squares clearing selected_square on JustDeselected of any entity.
JustDeselected_any(c) ==
    /\ Running
    /\ n_events < MaxEvents
    /\ selected_square' = None
    /\ sq_changed_sp' = TRUE
    /\ sq_changed_mp' = TRUE
    /\ n_events' = n_events + 1
    /\ UNCHANGED <<pieces, taken, turn, selected_piece, pc_changed_mp, attempt, resolved,
                   game_over, panicked, moves, legal>>

\* select_squares, SelectionEvent::JustDeselected(entity)
JustDeselected(c) ==
    /\ Running
    /\ n_events < MaxEvents
    /\ IF Some(c) = selected_square
       THEN /\ selected_square' = None
            /\ sq_changed_sp' = TRUE
            /\ sq_changed_mp' = TRUE
       ELSE UNCHANGED <<selected_square, sq_changed_sp, sq_changed_mp>>
    /\ n_events' = n_events + 1
    /\ UNCHANGED <<pieces, taken, turn, selected_piece, pc_changed_mp, attempt, resolved,
                   game_over, panicked, moves, legal>>

\* select_piece without the "piece.color == turn.0" test.
select_piece_any_color(ps, sq, sp, t, changed) ==
    IF ~changed THEN sp
    ELSE IF sq = None THEN None
    ELSE IF sp # None THEN sp
    ELSE LET square == sq[1]
             hits == {e \in DOMAIN ps : ps[e].x = square[1] /\ ps[e].y = square[2]}
         IN  IF hits = {} THEN None ELSE Some(SetMin(hits))

\* select_piece without the "selected_piece.entity.take()" branch.
select_piece_no_take(ps, sq, sp, t, changed) ==
    IF ~changed THEN sp
    ELSE IF sq = None THEN sp
    ELSE IF sp # None THEN sp
    ELSE LET square == sq[1]
             hits == {e \in DOMAIN ps :
                        ps[e].x = square[1] /\ ps[e].y = square[2] /\ ps[e].color = t}
         IN  IF hits = {} THEN None ELSE Some(SetMin(hits))

\* select_piece: the entity it leaves in selected_piece.
select_piece(ps, sq, sp, t, changed) ==
    IF ~changed THEN sp
    ELSE IF sq = None THEN None
    ELSE IF sp # None THEN sp
    ELSE LET square == sq[1]
             hits == {e \in DOMAIN ps :
                        ps[e].x = square[1] /\ ps[e].y = square[2] /\ ps[e].color = t}
         IN  IF hits = {} THEN None ELSE Some(SetMin(hits))

\* select_piece: whether it wrote selected_piece (assignment or take()).
select_piece_writes(ps, sq, sp, t, changed) ==
    /\ changed
    /\ \/ sq = None
       \/ sp = None /\ select_piece(ps, sq, sp, t, changed) # None

\* move_piece without the "selected_piece.is_changed()" early return.
move_piece_runs_same_frame(sq, sp, sq_changed, pc_changed) ==
    /\ sq_changed
    /\ sq # None
    /\ sp # None

\* move_piece: whether it gets past its four early returns.
move_piece_runs(sq, sp, sq_changed, pc_changed) ==
    /\ sq_changed
    /\ sq # None
    /\ ~pc_changed
    /\ sp # None

\* move_piece: the piece found at the selected square.
other_entity(ps, square) ==
    LET hits == {e \in DOMAIN ps : ps[e].x = square[1] /\ ps[e].y = square[2]}
    IN  IF hits = {} THEN None ELSE Some(SetMin(hits))

\* move_piece assigning only piece.x.
move_piece_position_x_only(ps, e, square, valid) ==
    IF valid THEN [ps EXCEPT ![e].x = square[1]] ELSE ps

\* move_piece: the pieces after "piece.x = square.x; piece.y = square.y".
move_piece_position(ps, e, square, valid) ==
    IF valid THEN [ps EXCEPT ![e].x = square[1], ![e].y = square[2]] ELSE ps

\* move_piece without the insert(Taken).
move_piece_taken_none(other, valid) == {}

\* move_piece: the entities commands.entity(..).insert(Taken) is issued for.
move_piece_taken(other, valid) ==
    IF valid /\ other # None THEN {other[1]} ELSE {}

\* move_piece with turn.toggle() after the is_move_valid branch.
move_piece_turn_always(t, valid) == toggle(t)

\* move_piece with no turn.toggle().
move_piece_turn_never(t, valid) == t

\* move_piece: the turn after "turn.toggle()" inside the is_move_valid branch.
move_piece_turn(t, valid) == IF valid THEN toggle(t) ELSE t

\* move_piece without "selected_square.entity = None; selected_piece.entity = None".
move_piece_clear_never(sel, runs) == sel

\* move_piece: a selection resource after the two assignments that end move_piece.
move_piece_clear(sel, runs) == IF runs THEN None ELSE sel

\* remove_taken_pieces sending AppExit for any taken piece.
remove_taken_pieces_exit_any(ps, tk) == tk # {}

\* remove_taken_pieces: whether it sends AppExit.
remove_taken_pieces_exit(ps, tk) == \E e \in tk : ps[e].piece_type = "King"

\* remove_taken_pieces without the despawn_recursive.
remove_taken_pieces_keep(ps, tk) == ps

\* remove_taken_pieces: the entities left once its despawn_recursive commands are applied.
remove_taken_pieces(ps, tk) == [e \in (DOMAIN ps) \ tk |-> ps[e]]

\* One frame of the Update stage after select_squares has read its events:
\* select_piece, move_piece, remove_taken_pieces, then the Commands are applied.
Update ==
    /\ Running
    /\ LET sp1   == select_piece(pieces, selected_square, selected_piece, turn, sq_changed_sp)
           wrote == select_piece_writes(pieces, selected_square, selected_piece, turn,
                                        sq_changed_sp)
           runs  == move_piece_runs(selected_square, sp1, sq_changed_mp,
                                    pc_changed_mp \/ wrote)
       IN  IF runs /\ sp1[1] \notin DOMAIN pieces
           THEN \* pieces_query.get_mut(piece_entity).unwrap() on a despawned entity
                /\ panicked' = TRUE
                /\ UNCHANGED <<pieces, taken, turn, selected_square, selected_piece,
                               sq_changed_sp, sq_changed_mp, pc_changed_mp, n_events,
                               attempt, resolved, game_over, moves, legal>>
           ELSE LET square == selected_square[1]
                    valid == runs /\ is_move_valid(pieces[sp1[1]], square, PieceVec(pieces))
                    other == IF runs THEN other_entity(pieces, square) ELSE None
                    moved == IF runs
                             THEN move_piece_position(pieces, sp1[1], square, valid)
                             ELSE pieces
                    marked == move_piece_taken(other, valid)
                IN  /\ valid => moves < MaxMoves
                    /\ pieces' = remove_taken_pieces(moved, taken)
                    /\ taken' = marked \ taken
                    /\ turn' = move_piece_turn(turn, valid)
                    /\ selected_square' = move_piece_clear(selected_square, runs)
                    /\ selected_piece' = move_piece_clear(sp1, runs)
                    /\ sq_changed_sp' = runs
                    /\ sq_changed_mp' = FALSE
                    /\ pc_changed_mp' = FALSE
                    /\ n_events' = 0
                    /\ attempt' = IF ~runs THEN "none" ELSE IF valid THEN "legal" ELSE "illegal"
                    /\ resolved' = (selected_piece = None /\ sp1 # None)
                    /\ game_over' = remove_taken_pieces_exit(pieces, taken)
                    /\ moves' = IF valid THEN moves + 1 ELSE moves
                    /\ UNCHANGED <<panicked, legal>>

Next ==
    \/ \E c \in ClickSquares : JustSelected(c)
    \/ \E c \in ClickSquares : JustDeselected(c)
    \/ Update

Spec == Init /\ [][Next]_vars

(***************************************************************************)
(* The legality engine on its own: is_move_valid applied to drawn boards   *)
(***************************************************************************)
\* Pieces on the board besides the moving piece.
MaxOthers == 1

\* The squares the moving piece and the other pieces are drawn from: both pawn
\* starting ranks (x = 1, x = 6) and three files.
ProbeSquares == (1 .. 6) \X (0 .. 2)

\* The sets of at most n squares of S.
RECURSIVE SquaresUpTo(_, _)
SquaresUpTo(S, n) ==
    IF n = 0 THEN {{}}
    ELSE LET P == SquaresUpTo(S, n - 1) IN P \cup {T \cup {s} : T \in P, s \in S}

SquareKey(s) == s[1] * BoardSize + s[2]

\* The k-th square of S in board order.
NthSquare(S, k) == CHOOSE s \in S : Cardinality({t \in S : SquareKey(t) < SquareKey(s)}) = k - 1

\* The board of the moving piece (entity 1) and one piece on each square of S
\* (entities 2..), coloured by col. is_move_valid reads only x, y and color of
\* the pieces other than self.
Board(mover, S, col) ==
    [e \in 1 .. (Cardinality(S) + 1) |->
        IF e = 1 THEN mover
        ELSE LET s == NthSquare(S, e - 1) IN Piece(col[s], "Pawn", s[1], s[2])]

\* The probe squares on the file of the square here, here left out.
OnFile(here) == {s \in ProbeSquares \ {here} : s[2] = here[2]}

\* The other pieces stand on at most MaxOthers probe squares, or on at most
\* MaxOthers + 1 probe squares of the moving piece's file.
InitLegal ==
    /\ \E color \in PieceColor, piece_type \in PieceType, here \in ProbeSquares :
          \E S \in SquaresUpTo(ProbeSquares \ {here}, MaxOthers)
                      \cup SquaresUpTo(OnFile(here), MaxOthers + 1) :
             \E col \in [S -> PieceColor] :
                pieces = Board(Piece(color, piece_type, here[1], here[2]), S, col)
    /\ taken = {}
    /\ turn = pieces[1].color
    /\ selected_square = None
    /\ selected_piece = Some(1)
    /\ sq_changed_sp = FALSE
    /\ sq_changed_mp = FALSE
    /\ pc_changed_mp = FALSE
    /\ n_events = 0
    /\ attempt = "none"
    /\ resolved = FALSE
    /\ game_over = FALSE
    /\ panicked = FALSE
    /\ moves = 0
    /\ legal = None

\* piece.is_move_valid(t, &pieces) for every square t of the board.
Validate ==
    /\ legal = None
    /\ LET self == pieces[selected_piece[1]]
           vec == PieceVec(pieces)
       IN  legal' = Some({t \in Square : is_move_valid(self, t, vec)})
    /\ UNCHANGED <<pieces, taken, turn, selected_square, selected_piece, sq_changed_sp,
                   sq_changed_mp, pc_changed_mp, n_events, attempt, resolved, game_over,
                   panicked, moves>>

NextLegal == Validate

SpecLegal == InitLegal /\ [][NextLegal]_vars

(***************************************************************************)
(* Geometry the properties are stated with                                 *)
(***************************************************************************)
\* Two distinct squares on a common rank, file or diagonal.
Aligned(a, b) ==
    /\ a # b
    /\ \/ a[1] = b[1]
       \/ a[2] = b[2]
       \/ Abs(a[1] - b[1]) = Abs(a[2] - b[2])

\* The squares strictly between a and b on the line that joins them.
Between(a, b) ==
    {s \in Square :
        /\ Aligned(a, s) /\ Aligned(s, b)
        /\ Signum(s[1] - a[1]) = Signum(b[1] - a[1])
        /\ Signum(s[2] - a[2]) = Signum(b[2] - a[2])
        /\ Signum(b[1] - s[1]) = Signum(b[1] - a[1])
        /\ Signum(b[2] - s[2]) = Signum(b[2] - a[2])}

PieceAt(e) == <<pieces[e].x, pieces[e].y>>

Occupied(s) == \E e \in DOMAIN pieces : PieceAt(e) = s

OccupiedBy(s, color) == \E e \in DOMAIN pieces : PieceAt(e) = s /\ pieces[e].color = color

\* SpecLegal: the moving piece and where it stands.
Mover == pieces[selected_piece[1]]

Here == <<Mover.x, Mover.y>>

Sliders == {"Rook", "Bishop", "Queen"}

\* The shape a sliding kind may move along.
SlideShape(piece_type, a, b) ==
    LET onStraight == a # b /\ (a[1] = b[1] \/ a[2] = b[2])
        onDiagonal == a # b /\ Abs(a[1] - b[1]) = Abs(a[2] - b[2])
    IN  CASE piece_type = "Rook" -> onStraight
          [] piece_type = "Bishop" -> onDiagonal
          [] piece_type = "Queen" -> onStraight \/ onDiagonal
          [] OTHER -> FALSE

\* A step of the game that is a whole frame (Update resets the event count; the
\* event steps raise it).
Frame == n_events' = 0 /\ ~panicked'

(***************************************************************************)
(* Properties                                                              *)
(***************************************************************************)
\* C1: for a Rook, Bishop or Queen and a target on the same rank, file or
\* diagonal, is_move_valid is false when a square strictly between the piece and
\* the target is occupied, in the four straight and the four diagonal directions.
C1_BlockedSliderRejected ==
    (legal # None /\ Mover.piece_type \in Sliders) =>
        \A t \in Square :
            (Aligned(Here, t) /\ \E s \in Between(Here, t) : Occupied(s)) => t \notin legal[1]

\* C2: the turn changes only in a frame whose move attempt is legal and moves the
\* selected piece to the selected square, and it changes in every such frame;
\* every other frame and every event leaves it alone.
C2_TurnTogglesOnLegalMove ==
    [][/\ turn' # turn =>
            /\ Frame
            /\ attempt' = "legal"
            /\ selected_piece # None /\ selected_square # None
            /\ selected_piece[1] \in DOMAIN pieces'
            /\ <<pieces'[selected_piece[1]].x, pieces'[selected_piece[1]].y>>
                   = selected_square[1]
       /\ (Frame /\ attempt' = "legal") => (turn' # turn /\ moves' = moves + 1)
       /\ (Frame /\ attempt' # "legal") => turn' = turn
      ]_vars

C2_Witness == attempt = "legal" /\ turn = "Black" /\ moves = 1

\* C3: a frame whose move attempt is illegal changes no piece, tags and removes
\* none, keeps the turn and drops the selection; from the starting position the
\* rook on (0,0) may not go to (0,3).
C3_IllegalMoveChangesNothing ==
    /\ [][(Frame /\ attempt' = "illegal") =>
              /\ pieces' = pieces
              /\ taken' = taken
              /\ turn' = turn
              /\ ~game_over'
              /\ selected_square' = None
              /\ selected_piece' = None
         ]_vars
    /\ [](pieces = create_pieces =>
              ~is_move_valid(pieces[1], <<0, 3>>, PieceVec(pieces)))

C3_Witness ==
    /\ attempt = "illegal"
    /\ pieces = create_pieces
    /\ turn = "White"
    /\ selected_square = None
    /\ selected_piece = None

\* C4: a selected piece is of the colour to move, and selected_piece is only ever
\* set to a piece that stands on the selected square and has the colour to move.
C4_SelectedPieceOfSideToMove ==
    /\ [](selected_piece # None =>
              /\ create_pieces[selected_piece[1]].color = turn
              /\ selected_piece[1] \in DOMAIN pieces =>
                     pieces[selected_piece[1]].color = turn)
    /\ [][(selected_piece' # None /\ selected_piece' # selected_piece) =>
              /\ Frame
              /\ selected_piece = None
              /\ selected_square # None
              /\ selected_piece'[1] \in DOMAIN pieces
              /\ PieceAt(selected_piece'[1]) = selected_square[1]
              /\ pieces[selected_piece'[1]].color = turn
         ]_vars

C4_Witness == selected_piece # None /\ turn = "Black" /\ resolved

\* C5 as stated: no two pieces of the collection stand on the same square.
C5_NoSharedSquare ==
    \A e, f \in DOMAIN pieces : e # f => PieceAt(e) # PieceAt(f)

\* C5 as amended: no two pieces of the collection that do not carry Taken stand
\* on the same square.
C5_UntakenOnDistinctSquares ==
    \A e, f \in (DOMAIN pieces) \ taken : e # f => PieceAt(e) # PieceAt(f)

C5_Witness ==
    \E e \in taken : \E f \in (DOMAIN pieces) \ taken : PieceAt(e) = PieceAt(f)

\* C6: no frame fails, whatever events arrive.
C6_NoFailure == ~panicked

\* C7: is_move_valid is false for a target on which a piece of the mover's colour
\* stands, the mover's own square included.
C7_OwnColourTargetRejected ==
    legal # None =>
        \A t \in Square : OccupiedBy(t, Mover.color) => t \notin legal[1]

C7_Witness ==
    /\ legal # None
    /\ Mover.piece_type = "King"
    /\ \E e \in (DOMAIN pieces) \ {selected_piece[1]} :
          /\ pieces[e].color = Mover.color
          /\ Max2(Abs(pieces[e].x - Mover.x), Abs(pieces[e].y - Mover.y)) = 1

\* C8: a legal move onto an opposing piece leaves that piece in the collection,
\* carrying Taken, when the frame ends; the next frame removes every piece that
\* carries Taken and leaves none carrying it.
C8_TakenThenSwept ==
    [][Frame =>
          /\ attempt' = "legal" =>
                \A o \in DOMAIN pieces :
                    (PieceAt(o) = selected_square[1] /\ pieces[o].color # turn) =>
                        (o \in taken' /\ o \in DOMAIN pieces')
          /\ \A e \in taken : e \notin DOMAIN pieces'
          /\ taken # {} => taken' = {}
      ]_vars

C8_Witness == attempt = "legal" /\ taken # {} /\ taken \subseteq DOMAIN pieces

\* C9: AppExit is sent in a frame exactly when a piece that carries Taken at the
\* start of the frame is a King, and that King is removed in the same frame.
C9_GameOverIffKingTaken ==
    [][/\ game_over' # game_over => Frame
       /\ Frame =>
             /\ game_over' <=> \E e \in taken : pieces[e].piece_type = "King"
             /\ \A e \in taken : pieces[e].piece_type = "King" => e \notin DOMAIN pieces'
      ]_vars

C9_Witness == game_over /\ \A e \in DOMAIN pieces : pieces[e].color = "Black" => pieces[e].piece_type # "King"

\* C10: for a target on a common rank, file or diagonal, is_path_empty is true
\* exactly when no piece stands strictly between the two squares, and then a
\* sliding move of the right shape to a square not held by the mover's colour is
\* accepted.
C10_PathEmptyExact ==
    legal # None =>
        /\ \A t \in Square :
              Aligned(Here, t) =>
                  (is_path_empty(Here, t, PieceVec(pieces))
                      <=> \A s \in Between(Here, t) : ~Occupied(s))
        /\ \A t \in Square :
              ( /\ SlideShape(Mover.piece_type, Here, t)
                /\ \A s \in Between(Here, t) : ~Occupied(s)
                /\ ~OccupiedBy(t, Mover.color) ) => t \in legal[1]

\* SpecLegal, a moving pawn: its forward direction, its starting rank, and the
\* squares one and two steps ahead and diagonally ahead of it.
Forward == IF Mover.color = "White" THEN 1 ELSE -1

StartRank == IF Mover.color = "White" THEN 1 ELSE 6

Ahead(n) == <<Mover.x + n * Forward, Mover.y>>

DiagonalAhead == {<<Mover.x + Forward, Mover.y - 1>>, <<Mover.x + Forward, Mover.y + 1>>} \cap Square

\* C11: a pawn's move two squares ahead on its file is accepted exactly when the
\* pawn stands on its starting rank and both the square it passes and the target
\* are empty.
C11_PawnDoubleStep ==
    (legal # None /\ Mover.piece_type = "Pawn" /\ Ahead(2) \in Square) =>
        (Ahead(2) \in legal[1]
            <=> /\ Mover.x = StartRank
                /\ ~Occupied(Ahead(1))
                /\ ~Occupied(Ahead(2)))

C11_Witness ==
    /\ legal # None
    /\ Mover.piece_type = "Pawn"
    /\ Mover.color = "Black"
    /\ Mover.x = StartRank
    /\ Occupied(Ahead(1))
    /\ Occupied(Ahead(2))
    /\ Ahead(2) \notin legal[1]

\* C12: a pawn's move to a square diagonally ahead is rejected when the square is
\* empty, accepted when a piece of the other colour stands on it, and rejected
\* when a piece of the pawn's colour stands on it.
C12_PawnDiagonal ==
    (legal # None /\ Mover.piece_type = "Pawn") =>
        \A t \in DiagonalAhead :
            t \in legal[1] <=> OccupiedBy(t, toggle(Mover.color))

C12_Witness ==
    /\ legal # None
    /\ Mover.piece_type = "Pawn"
    /\ \E t \in DiagonalAhead : t[2] < Mover.y /\ t \in legal[1]

\* C15: for a Knight the accepted targets are exactly the squares at one of the
\* eight offsets (+-1, +-2), (+-2, +-1) on which no piece of its colour stands,
\* whatever stands on any other square.
C15_KnightOffsets ==
    (legal # None /\ Mover.piece_type = "Knight") =>
        legal[1] = {t \in Square :
                       /\ ~OccupiedBy(t, Mover.color)
                       /\ <<Abs(t[1] - Mover.x), Abs(t[2] - Mover.y)>> \in {<<1, 2>>, <<2, 1>>}}

C15_Witness ==
    /\ legal # None
    /\ Mover.piece_type = "Knight"
    /\ \E e \in DOMAIN pieces :
          /\ Max2(Abs(pieces[e].x - Mover.x), Abs(pieces[e].y - Mover.y)) = 1
          /\ \E t \in legal[1] : t[1] < Mover.x /\ t[2] < Mover.y

\* C16: for a King the accepted targets are exactly the adjacent squares on which
\* no piece of its colour stands.
C16_KingAdjacent ==
    (legal # None /\ Mover.piece_type = "King") =>
        legal[1] = {t \in Square :
                       /\ ~OccupiedBy(t, Mover.color)
                       /\ Max2(Abs(t[1] - Mover.x), Abs(t[2] - Mover.y)) = 1}

C16_Witness ==
    /\ legal # None
    /\ Mover.piece_type = "King"
    /\ Cardinality(legal[1]) = 8

\* C17: every target accepted for a Rook, Bishop or Queen has the shape of its
\* kind: one of dx, dy zero for a Rook, |dx| = |dy| # 0 for a Bishop, either for
\* a Queen; whatever the board, a target of any other shape is rejected.
C17_SliderShape ==
    (legal # None /\ Mover.piece_type \in Sliders) =>
        \A t \in legal[1] : SlideShape(Mover.piece_type, Here, t)

C17_Witness ==
    /\ legal # None
    /\ Mover.piece_type = "Queen"
    /\ \E t, u \in legal[1] : t[1] = Mover.x /\ u[1] # Mover.x /\ u[2] # Mover.y
    /\ \E t \in Square : Abs(t[1] - Mover.x) = 2 /\ Abs(t[2] - Mover.y) = 1 /\ ~Occupied(t)

\* C18: a pawn's move one square ahead on its file is accepted exactly when the
\* target is empty, and a pawn is accepted on no square other than the squares
\* one and two steps ahead and diagonally ahead.
C18_PawnSingleStep ==
    (legal # None /\ Mover.piece_type = "Pawn") =>
        /\ Ahead(1) \in Square => (Ahead(1) \in legal[1] <=> ~Occupied(Ahead(1)))
        /\ legal[1] \subseteq {Ahead(1), Ahead(2)} \cup DiagonalAhead

C18_Witness ==
    /\ legal # None
    /\ Mover.piece_type = "Pawn"
    /\ Mover.color = "Black"
    /\ Ahead(1) \in legal[1]
    /\ Occupied(<<Mover.x + 1, Mover.y>>)

\* C13: a frame in which move_piece makes an attempt, legal or illegal, ends with
\* selected_square and selected_piece both None; selected_piece is set again only
\* by select_piece in a frame without an attempt, and an attempt needs a piece
\* selected before its frame.
C13_AttemptClearsSelection ==
    [][/\ (Frame /\ attempt' # "none") =>
              /\ selected_square' = None
              /\ selected_piece' = None
              /\ selected_piece # None
       /\ (selected_piece = None /\ selected_piece' # None) =>
              (Frame /\ resolved' /\ attempt' = "none")
      ]_vars

C13_Witness ==
    /\ attempt = "legal"
    /\ moves = 2
    /\ selected_square = None
    /\ selected_piece = None

\* C14: with no piece selected, a frame that reads the single event
\* JustSelected(s), s holding a piece of the colour to move, selects such a piece
\* and leaves it in the collection; with a piece P selected, a frame that reads
\* the single event JustSelected(t) does not fail, and when is_move_valid(P, t)
\* holds it ends with P on t, the turn toggled and both selections None.
C14_SelectThenMove ==
    [][(/\ n_events = 1 /\ sq_changed_mp /\ selected_square # None
        /\ (n_events' = 0 \/ panicked')) =>
            LET s == selected_square[1]
                onS == {e \in DOMAIN pieces : PieceAt(e) = s /\ pieces[e].color = turn}
            IN  /\ (selected_piece = None /\ onS # {}) =>
                       /\ selected_piece' # None
                       /\ selected_piece'[1] \in onS
                       /\ selected_piece'[1] \in DOMAIN pieces'
                /\ selected_piece # None =>
                       /\ ~panicked'
                       /\ ( /\ selected_piece[1] \in DOMAIN pieces
                            /\ is_move_valid(pieces[selected_piece[1]], s, PieceVec(pieces)) ) =>
                              /\ selected_piece[1] \in DOMAIN pieces'
                              /\ pieces'[selected_piece[1]].x = s[1]
                              /\ pieces'[selected_piece[1]].y = s[2]
                              /\ turn' = toggle(turn)
                              /\ selected_square' = None
                              /\ selected_piece' = None
      ]_vars

\* C19: JustDeselected(c) sets selected_square to None when c is the selected
\* square and otherwise changes nothing but the count of events read; a frame
\* whose only event is such a JustDeselected makes no attempt, selects no piece
\* and leaves both selections, the turn and every remaining piece as they were.
C19_DeselectOnlySelected ==
    [][/\ \A c \in ClickSquares :
              JustDeselected(c) =>
                  IF Some(c) = selected_square
                  THEN selected_square' = None
                  ELSE UNCHANGED <<selected_square, selected_piece, pieces, taken, turn,
                                   sq_changed_sp, sq_changed_mp, pc_changed_mp, attempt,
                                   resolved>>
       /\ (Frame /\ n_events = 1 /\ ~sq_changed_mp) =>
              /\ attempt' = "none"
              /\ ~resolved'
              /\ selected_square' = selected_square
              /\ selected_piece' = selected_piece
              /\ turn' = turn
              /\ \A e \in DOMAIN pieces' : pieces'[e] = pieces[e]
      ]_vars

C19_Witness ==
    /\ n_events = 1
    /\ ~sq_changed_mp
    /\ selected_square # None
    /\ selected_piece # None

\* C20: the frame in which select_piece sets selected_piece makes no attempt,
\* moves no piece, keeps the turn and keeps both selections; a frame makes an
\* attempt only when selected_square was written in it and selected_piece was
\* set before it.
C20_ResolveThenMove ==
    [][Frame =>
          /\ (resolved' \/ (selected_piece = None /\ selected_piece' # None)) =>
                /\ attempt' = "none"
                /\ turn' = turn
                /\ \A e \in DOMAIN pieces' : pieces'[e] = pieces[e]
                /\ selected_piece' # None
                /\ selected_square' = selected_square
                /\ selected_square' # None
          /\ attempt' # "none" =>
                /\ selected_piece # None
                /\ selected_square # None
                /\ sq_changed_mp
                /\ ~resolved'
      ]_vars

C20_Witness ==
    /\ resolved
    /\ attempt = "none"
    /\ moves = 1
    /\ selected_piece # None
    /\ selected_square # None

\* C21: a frame that begins with selected_square set to None by a JustDeselected
\* of the selected square ends with selected_piece None, makes no attempt and
\* leaves the turn and every remaining piece as they were; the next attempt
\* needs a new selection by select_piece.
C21_DeselectDropsPiece ==
    [][(Frame /\ n_events >= 1 /\ sq_changed_mp /\ selected_square = None) =>
          /\ selected_piece' = None
          /\ selected_square' = None
          /\ attempt' = "none"
          /\ ~resolved'
          /\ turn' = turn
          /\ \A e \in DOMAIN pieces' : pieces'[e] = pieces[e]
      ]_vars

C21_Witness ==
    /\ n_events = 1
    /\ sq_changed_mp
    /\ selected_square = None
    /\ selected_piece # None
    /\ moves = 1

(***************************************************************************)
(* The explicit three-state selection machine of the specification         *)
(* (section 4.2): one tick with at most one event                          *)
(***************************************************************************)
\* Idle: nothing selected; SquareSelected: a square but no piece;
\* PieceSelected: a piece awaiting its destination.
ExplicitState(sq, sp) ==
    IF sp # None THEN "PieceSelected"
    ELSE IF sq # None THEN "SquareSelected"
    ELSE "Idle"

\* One tick of the explicit machine from the pieces ps, the tagged pieces tk,
\* the turn t and the selected piece sp, where sq is the selected square after
\* selection tracking and ev tells what the tick's event did to it: "chosen",
\* "cleared" or "none". Piece resolution scans the pieces for one on sq of the
\* colour to move; a move attempt asks is_move_valid for the selected piece and
\* returns to Idle; the capture sweep removes the pieces tagged before the tick.
ExplicitStep(ps, tk, t, sq, sp, ev) ==
    LET state   == ExplicitState(IF ev = "chosen" THEN None ELSE sq, sp)
        tries   == ev = "chosen" /\ state = "PieceSelected"
        finds   == ev = "chosen" /\ state # "PieceSelected"
        own     == {e \in DOMAIN ps :
                       ps[e].x = sq[1][1] /\ ps[e].y = sq[1][2] /\ ps[e].color = t}
        isLegal == /\ tries
                   /\ sp[1] \in DOMAIN ps
                   /\ is_move_valid(ps[sp[1]], sq[1], PieceVec(ps))
        onTarget == {e \in DOMAIN ps : ps[e].x = sq[1][1] /\ ps[e].y = sq[1][2]}
        moved   == IF isLegal
                   THEN [ps EXCEPT ![sp[1]].x = sq[1][1], ![sp[1]].y = sq[1][2]]
                   ELSE ps
    IN  [pieces |-> [e \in (DOMAIN ps) \ tk |-> moved[e]],
         taken |-> IF isLegal /\ onTarget # {} THEN {SetMin(onTarget)} \ tk ELSE {},
         turn |-> IF isLegal THEN (IF t = "White" THEN "Black" ELSE "White") ELSE t,
         selected_square |-> IF tries THEN None ELSE sq,
         selected_piece |-> IF ev = "cleared" \/ tries THEN None
                            ELSE IF finds
                                 THEN (IF own = {} THEN None ELSE Some(SetMin(own)))
                                 ELSE sp]

\* What the single event of a frame did to selected_square, read off the state
\* in which Update starts.
FrameEvent ==
    IF n_events = 0 \/ ~sq_changed_mp THEN "none"
    ELSE IF selected_square = None THEN "cleared"
    ELSE "chosen"

\* C22: every frame that reads at most one event completes and leaves the
\* pieces, the turn and the selected piece that one tick of the explicit
\* machine leaves from the same pieces, turn, selection and event.
C22_ExplicitMachineEquivalent ==
    [][(n_events <= 1 /\ (n_events' = 0 \/ panicked')) =>
          LET r == ExplicitStep(pieces, taken, turn, selected_square, selected_piece,
                                FrameEvent)
          IN  /\ ~panicked'
              /\ pieces' = r.pieces
              /\ turn' = r.turn
              /\ selected_piece' = r.selected_piece
      ]_vars

\* The pieces whose position a step changes.
Movers == {e \in (DOMAIN pieces) \cap (DOMAIN pieces') : PieceAt(e) # <<pieces'[e].x, pieces'[e].y>>}

\* C23: every piece whose position changes has the colour of the turn before the
\* frame, and the turn is the other colour after it; the turn is White exactly
\* when an even number of moves has been made, so the colours of the moved
\* pieces alternate, White first.
C23_TurnsAlternate ==
    /\ [][\A e \in Movers :
              /\ Frame
              /\ pieces[e].color = turn
              /\ turn' # turn
              /\ moves' = moves + 1
              /\ Movers = {e}
         ]_vars
    /\ [](turn = (IF moves % 2 = 0 THEN "White" ELSE "Black"))

C23_Witness ==
    /\ moves = 3
    /\ turn = "Black"
    /\ \E e \in DOMAIN pieces : pieces[e].color = "Black" /\ pieces[e] # create_pieces[e]

\* C24: in the starting position is_move_valid is false for every Rook, Bishop,
\* Queen and King on every target, so an attempt to move one of them with the
\* first two selections is illegal and the piece a first move moves is a pawn or
\* a knight.
C24_StartOnlyPawnsAndKnights ==
    [][(Frame /\ pieces = create_pieces /\ attempt' # "none") =>
          /\ pieces[selected_piece[1]].piece_type \in {"Rook", "Bishop", "Queen", "King"} =>
                /\ ~is_move_valid(pieces[selected_piece[1]], selected_square[1],
                                  PieceVec(pieces))
                /\ attempt' = "illegal"
          /\ \A e \in Movers : pieces[e].piece_type \in {"Pawn", "Knight"}
      ]_vars

\* C25: a frame with a legal move changes the position of the selected piece
\* only, to the selected square; it tags at most one piece, one of the other
\* colour that stood on that square; no frame changes a piece's colour or kind
\* or adds a piece.
C25_LegalMoveFrame ==
    [][Frame =>
          /\ attempt' = "legal" =>
                /\ Movers = {selected_piece[1]}
                /\ <<pieces'[selected_piece[1]].x, pieces'[selected_piece[1]].y>>
                       = selected_square[1]
                /\ Cardinality(taken') <= 1
                /\ \A o \in taken' :
                      /\ o \in DOMAIN pieces
                      /\ PieceAt(o) = selected_square[1]
                      /\ pieces[o].color # pieces[selected_piece[1]].color
          /\ attempt' # "legal" => (Movers = {} /\ taken' = {})
          /\ DOMAIN pieces' \subseteq DOMAIN pieces
          /\ \A e \in DOMAIN pieces' :
                /\ pieces'[e].color = pieces[e].color
                /\ pieces'[e].piece_type = pieces[e].piece_type
      ]_vars

C25_Witness ==
    /\ attempt = "legal"
    /\ moves = 3
    /\ \E o \in taken : \E e \in (DOMAIN pieces) \ taken :
          /\ PieceAt(e) = PieceAt(o)
          /\ pieces[e].color # pieces[o].color
          /\ pieces[e].piece_type = "Knight"

====
